---- MODULE Spec2Model ----
(***************************************************************************)
(* autoMOO utilities (src/utils.py): the column grouping group_columns and *)
(* the dashboard callback update_dashboard that re-runs it on every click. *)
(*                                                                         *)
(* Numbers.  Correlations and thresholds are floats in the program.  They  *)
(* are modelled in fixed point, in millionths: 1.0 is 1000000, 0.999999 is *)
(* 999999, 0.9 is 900000.  The program only compares them with >, and the  *)
(* scaling keeps the order.  NaN (what np.corrcoef yields for a column of  *)
(* zero variance) and None (the threshold input left empty) are two values *)
(* outside the fixed-point range, with Python's comparison rules: NaN > x  *)
(* and x > NaN are False, a comparison with None raises TypeError.         *)
(*                                                                         *)
(* Dictionaries.  A Python dict keeps insertion order, and the program     *)
(* relies on it (list(row.keys())[val], the order of "Group n" labels), so *)
(* a dict is a sequence of entries [k |-> key, v |-> value] without        *)
(* repeated keys.                                                          *)
(***************************************************************************)
EXTENDS Integers, Sequences, FiniteSets, TLC

VARIABLES
    data,           \* the dataset: a list of dicts column name -> value
    cors,           \* the correlation matrix: a list of lists
    cor_threshold,  \* the threshold (direct call) / the cor_threshold input
    ret,            \* what the last call of group_columns returned or raised
    memory,         \* dcc.Store 'memory': {'data': ..., 'cors': ...}
    n_clicks,       \* update_button.n_clicks
    group_table,    \* group_table.data
    srcdoc,         \* parallel.srcDoc
    loaded          \* whether the page-load run of the callback has happened

vars == <<data, cors, cor_threshold, ret, memory, n_clicks, group_table,
          srcdoc, loaded>>

---------------------------------------------------------------------------
(* Bounds of the model. *)

MaxCols == 3        \* columns of a dataset of several rows
MaxRows == 2        \* rows of a dataset
MaxWideCols == 4    \* columns of a one-row dataset
MaxClicks == 2      \* presses of the update button

---------------------------------------------------------------------------
(* Python values. *)

NaN == -9000000
None == -8000000

\* variants of the comparison: x < y, x >= y, and not (x <= y), which is
\* True when an operand is NaN
PyLt(x, y) ==
    IF x = None \/ y = None THEN "TypeError"
    ELSE IF x = NaN \/ y = NaN THEN "False"
    ELSE IF x < y THEN "True" ELSE "False"

PyGe(x, y) ==
    IF x = None \/ y = None THEN "TypeError"
    ELSE IF x = NaN \/ y = NaN THEN "False"
    ELSE IF x >= y THEN "True" ELSE "False"

PyNotLe(x, y) ==
    IF x = None \/ y = None THEN "TypeError"
    ELSE IF x = NaN \/ y = NaN THEN "True"
    ELSE IF x > y THEN "True" ELSE "False"

\* x > y on Python numbers (line 217): "TypeError" when an operand is None,
\* else a Boolean, False whenever an operand is NaN.
PyGt(x, y) ==
    IF x = None \/ y = None THEN "TypeError"
    ELSE IF x = NaN \/ y = NaN THEN "False"
    ELSE IF x > y THEN "True" ELSE "False"

\* str(n) for a non-negative number
str(n) == ToString(n)

\* ', '.join(value)
RECURSIVE join(_, _)
join(sep, value) ==
    IF Len(value) = 0 THEN ""
    ELSE IF Len(value) = 1 THEN value[1]
    ELSE value[1] \o sep \o join(sep, Tail(value))

\* list(d.keys())
DictKeys(d) == [i \in 1..Len(d) |-> d[i].k]

\* k in d
HasKey(d, k) == \E i \in 1..Len(d) : d[i].k = k

\* d[k] = v: an existing key keeps its place, a new key goes last
DictSet(d, k, v) ==
    IF HasKey(d, k)
    THEN [i \in 1..Len(d) |-> IF d[i].k = k THEN [k |-> k, v |-> v] ELSE d[i]]
    ELSE Append(d, [k |-> k, v |-> v])

\* d[k], for a key of d
DictGet(d, k) == d[CHOOSE i \in 1..Len(d) : d[i].k = k].v

---------------------------------------------------------------------------
(* group_columns *)

\* a call that ends in an exception returns nothing
Raise(e) ==
    [outcome |-> e, data_grouped |-> <<>>, group_labels_with_columns |-> <<>>]

NoCall == Raise("none")

\* for leftover in range(val+1, len(col_list), 1): ... (lines 213-222).
\* val and leftover are the program's 0-based indices; members is
\* group_labels_with_columns[group_name] so far.
RECURSIVE LeftoverLoop(_, _, _, _, _, _)
LeftoverLoop(cors_, thr, col_list, val, leftover, members) ==
    IF leftover >= Len(col_list) THEN [err |-> "", members |-> members]
    ELSE IF val >= Len(cors_) \/ leftover >= Len(cors_[val + 1])
    THEN [err |-> "IndexError", members |-> members]
    ELSE LET correlation_val == cors_[val + 1][leftover + 1]
             higher == PyGt(correlation_val, thr)
         IN  IF higher = "TypeError"
             THEN [err |-> "TypeError", members |-> members]
             ELSE LeftoverLoop(cors_, thr, col_list, val, leftover + 1,
                      IF higher = "True"
                      THEN Append(members, col_list[leftover + 1])
                      ELSE members)

\* {x for v in group_labels_with_columns.values() for x in v} (lines 195-197);
\* sorted() only orders it, and the program only tests membership
GroupedCols(glwc) ==
    UNION {{glwc[g].v[m] : m \in 1..Len(glwc[g].v)} : g \in 1..Len(glwc)}

\* variant: the skip check is missing, every column starts a group
StartsGroupAlways(col, group_cols) == TRUE

\* if col not in group_cols (line 200)
StartsGroup(col, group_cols) == col \notin group_cols

\* variant: the label is built before the counter is incremented
GroupNameBeforeIncrement(group_label) == "Group " \o str(group_label - 1)

\* group_name = 'Group ' + str(group_label) (line 202)
GroupName(group_label) == "Group " \o str(group_label)

\* variant: val is read before it is incremented, so the index is the
\* previous column's (and -1, the last column, for the first)
GroupValsStaleIndex(data_, val) ==
    [i \in 1..Len(data_) |->
        DictGet(data_[i],
                DictKeys(data_[i])[IF val = 0 THEN Len(data_[i]) ELSE val])]

\* group_vals = [row[list(row.keys())[val]] for row in data] (line 208)
GroupVals(data_, val) ==
    [i \in 1..Len(data_) |-> DictGet(data_[i], DictKeys(data_[i])[val + 1])]

\* variant: the scan starts one column too late
FirstLeftoverSkipsNeighbour(val) == val + 2

\* the first index of range(val+1, len(col_list), 1) (line 213)
FirstLeftover(val) == val + 1

\* for col in col_list: ... (lines 191-222).  val is the number of columns
\* already visited, so the column visited now has 0-based index val.
RECURSIVE ColumnLoop(_, _, _, _, _, _, _, _)
ColumnLoop(data_, cors_, thr, col_list, val, group_label, glwc, dg) ==
    IF val >= Len(col_list)
    THEN [outcome |-> "ok", data_grouped |-> dg,
          group_labels_with_columns |-> glwc]
    ELSE LET col == col_list[val + 1]
             group_cols == GroupedCols(glwc)
         IN
         IF ~StartsGroup(col, group_cols)
         THEN ColumnLoop(data_, cors_, thr, col_list, val + 1, group_label,
                         glwc, dg)
         ELSE LET new_label == group_label + 1
                  group_name == GroupName(new_label)
                  glwc1 == DictSet(glwc, group_name, <<col>>)
              IN
              \* group_vals = [row[list(row.keys())[val]] for row in data]
              IF \E i \in 1..Len(data_) : Len(data_[i]) <= val
              THEN Raise("IndexError")
              ELSE LET group_vals == GroupVals(data_, val)
                       dg1 == [i \in 1..Len(data_) |->
                                  DictSet(dg[i], group_name, group_vals[i])]
                       scan == LeftoverLoop(cors_, thr, col_list, val,
                                            FirstLeftover(val), <<col>>)
                   IN  IF scan.err # ""
                       THEN Raise(scan.err)
                       ELSE ColumnLoop(data_, cors_, thr, col_list, val + 1,
                                new_label,
                                DictSet(glwc1, group_name, scan.members),
                                dg1)

group_columns(data_, cors_, thr) ==
    LET init_group == "Group 1"
        glwc0 == <<[k |-> init_group, v |-> <<>>]>>
        dg0 == [i \in 1..Len(data_) |-> <<[k |-> init_group, v |-> <<>>]>>]
    IN  IF Len(data_) = 0
        THEN Raise("IndexError")      \* data[0] of an empty list
        ELSE ColumnLoop(data_, cors_, thr, DictKeys(data_[1]), 0, 0,
                        glwc0, dg0)

---------------------------------------------------------------------------
(* The dashboard: create_dashboard and its callback update_dashboard *)

\* create_parallel(data): the page hiplot renders from the rows it is given
\* (hiplot is a library; the page is identified with the experiment's rows)
create_parallel(rows) == [experiment |-> rows]

NoDoc == [experiment |-> "unset"]

\* group_table has no data until the callback gives it some
NoTable == <<>>

\* dcc.Store(id='memory', data={'data': data, 'cors': cors}) (lines 341-347)
Store(data_, cors_) == [data |-> data_, cors |-> cors_]

NoStore == Store(<<>>, <<>>)

\* variant: the previous table is not discarded, the rows are appended to it
GroupTableRowsAppended(group_table_data, glwc) ==
    group_table_data \o
        [i \in 1..Len(glwc) |->
            [Group |-> glwc[i].k, Columns |-> join(", ", glwc[i].v)]]

\* group_table_data = [] and one row appended per group (lines 403-407): the
\* previous table group_table_data is discarded
GroupTableRows(group_table_data, glwc) ==
    [i \in 1..Len(glwc) |->
        [Group |-> glwc[i].k, Columns |-> join(", ", glwc[i].v)]]

\* update_dashboard (lines 359-409): the outputs, or the exception raised
update_dashboard(clicks, thr, group_table_data, memory_data) ==
    LET data_ == memory_data.data
        cors_ == memory_data.cors
    IN  IF clicks = 0
        THEN [outcome |-> "ok", srcdoc |-> create_parallel(data_),
              group_table_data |-> group_table_data, call |-> NoCall]
        ELSE LET r == group_columns(data_, cors_, thr)
             IN  IF r.outcome # "ok"
                 THEN [outcome |-> r.outcome, srcdoc |-> NoDoc,
                       group_table_data |-> group_table_data, call |-> r]
                 ELSE [outcome |-> "ok",
                       srcdoc |-> create_parallel(r.data_grouped),
                       group_table_data |->
                           GroupTableRows(group_table_data,
                                          r.group_labels_with_columns),
                       call |-> r]

---------------------------------------------------------------------------
(* Inputs *)

\* correlation values and thresholds, in millionths
CorValues == {NaN, 500000, 1000000}
Thresholds == {0, 500000, 1000000}

ColName(j) == "c" \o str(j)

\* a rectangular dataset of r rows and n columns, all values distinct
Dataset(n, r) ==
    [i \in 1..r |-> [j \in 1..n |-> [k |-> ColName(j), v |-> 10 * i + j]]]

UpperPairs(n) == {p \in (1..n) \X (1..n) : p[1] < p[2]}

\* the symmetric n x n matrix with diagonal 1.0 and upper triangle u
SymMatrix(n, u) ==
    [i \in 1..n |-> [j \in 1..n |->
        IF i = j THEN 1000000
        ELSE IF i < j THEN u[<<i, j>>] ELSE u[<<j, i>>]]]

\* an mr x mc matrix filled with v
ConstMatrix(mr, mc, v) == [i \in 1..mr |-> [j \in 1..mc |-> v]]

\* the dataset of Scenarios A and B and its Pearson matrix
ScenarioData ==
    << <<[k |-> "a", v |-> 1], [k |-> "b", v |-> 2], [k |-> "c", v |-> 10]>>,
       <<[k |-> "a", v |-> 2], [k |-> "b", v |-> 4], [k |-> "c", v |-> 1]>>,
       <<[k |-> "a", v |-> 3], [k |-> "b", v |-> 6], [k |-> "c", v |-> 5]>> >>

ScenarioCors ==
    << <<1000000, 1000000, -554416>>,
       <<1000000, 1000000, -554416>>,
       <<-554416, -554416, 1000000>> >>

ScenarioThresholds == {900000, 999999}

\* a dataset with the matrix of its size
MatchedInput ==
    \E n \in 1..MaxCols, r \in 1..MaxRows :
        \E u \in [UpperPairs(n) -> CorValues] :
            /\ data = Dataset(n, r)
            /\ cors = SymMatrix(n, u)
            /\ cor_threshold \in Thresholds

\* a wider dataset with the matrix of its size; one row is enough, the rows
\* take no part in the grouping (lines 208-210 only copy their values)
WideInput ==
    \E n \in (MaxCols + 1)..MaxWideCols :
        \E u \in [UpperPairs(n) -> CorValues] :
            /\ data = Dataset(n, 1)
            /\ cors = SymMatrix(n, u)
            /\ cor_threshold \in Thresholds

\* a dataset with a matrix of another size
MismatchedInput ==
    \E n \in 1..MaxCols, mr \in 0..(MaxCols + 1), mc \in 0..(MaxCols + 1) :
        \E v \in CorValues :
            /\ <<mr, mc>> # <<n, n>>
            /\ data = Dataset(n, 1)
            /\ cors = ConstMatrix(mr, mc, v)
            /\ cor_threshold \in Thresholds

ScenarioInput ==
    /\ data = ScenarioData
    /\ cors = ScenarioCors
    /\ cor_threshold \in ScenarioThresholds

\* two rows with the same columns in different key order
ShuffledInput ==
    /\ data = << <<[k |-> "c1", v |-> 11], [k |-> "c2", v |-> 12]>>,
                 <<[k |-> "c2", v |-> 22], [k |-> "c1", v |-> 21]>> >>
    /\ \E v \in CorValues : cors = SymMatrix(2, [p \in UpperPairs(2) |-> v])
    /\ cor_threshold \in Thresholds

\* no rows at all
EmptyInput ==
    /\ data = <<>>
    /\ cors = <<>>
    /\ cor_threshold \in Thresholds

---------------------------------------------------------------------------
(* Direct calls of group_columns *)

Init ==
    /\ \/ MatchedInput
       \/ WideInput
       \/ MismatchedInput
       \/ ScenarioInput
       \/ ShuffledInput
       \/ EmptyInput
    /\ ret = NoCall
    /\ memory = NoStore
    /\ n_clicks = 0
    /\ group_table = NoTable
    /\ srcdoc = NoDoc
    /\ loaded = FALSE

Call ==
    /\ ret = NoCall
    /\ ret' = group_columns(data, cors, cor_threshold)
    /\ UNCHANGED <<data, cors, cor_threshold, memory, n_clicks, group_table,
                   srcdoc, loaded>>

Next == Call

Spec == Init /\ [][Next]_vars

---------------------------------------------------------------------------
(* The dashboard *)

\* create_dashboard(data, cor_colormap): the matrix is computed from the data
\* (correlation_matrix), so it has the dataset's size; the input is empty
InitDash ==
    /\ \E n \in 1..MaxCols, r \in 1..MaxRows :
           \E u \in [UpperPairs(n) -> CorValues] :
               /\ data = Dataset(n, r)
               /\ cors = SymMatrix(n, u)
    /\ memory = Store(data, cors)
    /\ cor_threshold = None
    /\ ret = NoCall
    /\ n_clicks = 0
    /\ group_table = NoTable
    /\ srcdoc = NoDoc
    /\ loaded = FALSE

\* the callback's outputs reach the page unless it raised
Callback(clicks) ==
    LET out == update_dashboard(clicks, cor_threshold, group_table, memory)
    IN  /\ ret' = out.call
        /\ IF out.outcome = "ok"
           THEN /\ srcdoc' = out.srcdoc
                /\ group_table' = out.group_table_data
           ELSE UNCHANGED <<srcdoc, group_table>>

\* Dash runs the callback once when the page loads, with n_clicks = 0
PageLoad ==
    /\ ~loaded
    /\ loaded' = TRUE
    /\ Callback(n_clicks)
    /\ UNCHANGED <<data, cors, cor_threshold, memory, n_clicks>>

\* the user types a threshold, or empties the input
EnterThreshold ==
    /\ loaded
    /\ \E t \in Thresholds \cup {None} :
           /\ t # cor_threshold
           /\ cor_threshold' = t
    /\ UNCHANGED <<data, cors, ret, memory, n_clicks, group_table, srcdoc,
                   loaded>>

\* the user presses 'Update Plot'
ClickUpdate ==
    /\ loaded
    /\ n_clicks < MaxClicks
    /\ n_clicks' = n_clicks + 1
    /\ Callback(n_clicks + 1)
    /\ UNCHANGED <<data, cors, cor_threshold, memory, loaded>>

NextDash == PageLoad \/ EnterThreshold \/ ClickUpdate

SpecDash == InitDash /\ [][NextDash]_vars

---------------------------------------------------------------------------
(* Vocabulary of the properties *)

Called == ret # NoCall
Returned == ret.outcome = "ok"
Assignment == ret.group_labels_with_columns
Grouped == ret.data_grouped

\* the dataset's column names, in column order
Columns == IF Len(data) = 0 THEN <<>> ELSE DictKeys(data[1])
NCols == Len(Columns)

\* every row has the same keys in the same order
Rectangular == \A i \in 1..Len(data) : DictKeys(data[i]) = Columns

\* the matrix is NCols x NCols
Matched ==
    /\ Len(cors) = NCols
    /\ \A i \in 1..Len(cors) : Len(cors[i]) = NCols

\* a correlation strictly greater than the threshold; NaN is not
Above(x, t) == x # NaN /\ x > t

Members(g) == {Assignment[g].v[m] : m \in 1..Len(Assignment[g].v)}

\* the places of column name c in the member lists
Occurrences(c) ==
    {p \in (1..Len(Assignment)) \X (1..NCols) :
        p[2] <= Len(Assignment[p[1]].v) /\ Assignment[p[1]].v[p[2]] = c}

ColIndex(c) == CHOOSE j \in 1..NCols : Columns[j] = c

\* the columns among the first j that no earlier representative absorbed:
\* the columns still unassigned when the left-to-right scan reaches them
RECURSIVE Representatives(_)
Representatives(j) ==
    IF j = 0 THEN {}
    ELSE LET R == Representatives(j - 1)
         IN  IF \E r \in R : Above(cors[r][j], cor_threshold)
             THEN R ELSE R \cup {j}

\* a finite set of numbers in increasing order
RECURSIVE Increasing(_)
Increasing(S) ==
    IF S = {} THEN <<>>
    ELSE LET m == CHOOSE x \in S : \A y \in S : x <= y
         IN  <<m>> \o Increasing(S \ {m})

NumGroups(r) == Len(r.group_labels_with_columns)

---------------------------------------------------------------------------
(* Properties of group_columns, under Spec *)

\* C1: every original column name appears in exactly one place of the
\* returned group assignment: in one group, once.
C1_Partition ==
    Returned => \A j \in 1..NCols : Cardinality(Occurrences(Columns[j])) = 1

\* C2 as claimed: for thresholds t1 < t2 on the same data and matrix, the
\* number of groups for t1 is at most the number of groups for t2.
C2_Monotone ==
    (Returned /\ Matched) =>
        \A t2 \in Thresholds :
            cor_threshold < t2 =>
                NumGroups(ret) <= NumGroups(group_columns(data, cors, t2))

\* C2 amended: the same, for datasets of at most three columns.
C2_MonotoneUpToThreeColumns ==
    (Returned /\ Matched /\ NCols <= 3) =>
        \A t2 \in Thresholds :
            cor_threshold < t2 =>
                NumGroups(ret) <= NumGroups(group_columns(data, cors, t2))

\* a three-column dataset whose group count strictly grows with the threshold
C2_Witness ==
    /\ Returned /\ Matched /\ NCols = 3
    /\ cor_threshold = 0
    /\ NumGroups(ret) = 1
    /\ NumGroups(group_columns(data, cors, 500000)) = 2
    /\ NumGroups(group_columns(data, cors, 1000000)) = 3

\* the case of C3: three columns A, B, C with A-B and B-C above the
\* threshold and A-C not
ChainCase ==
    /\ Returned /\ Matched /\ NCols = 3
    /\ Above(cors[1][2], cor_threshold)
    /\ Above(cors[2][3], cor_threshold)
    /\ ~Above(cors[1][3], cor_threshold)

\* C3 as claimed: in the chain case A and C are in the same group.
C3_ChainSameGroup ==
    ChainCase =>
        \E g \in 1..Len(Assignment) :
            Columns[1] \in Members(g) /\ Columns[3] \in Members(g)

\* C3 amended: in the chain case the result is Group 1 = [A, B] and
\* Group 2 = [C]; C is not pulled in through B.
C3_ChainSplits ==
    ChainCase =>
        Assignment = <<[k |-> "Group 1", v |-> <<Columns[1], Columns[2]>>],
                       [k |-> "Group 2", v |-> <<Columns[3]>>]>>

C3_Witness == ChainCase /\ cors[1][3] = NaN /\ cor_threshold = 500000

\* Scenario B: the scenario dataset, called with threshold 0.999999
ScenarioB ==
    /\ Called
    /\ data = ScenarioData
    /\ cors = ScenarioCors
    /\ cor_threshold = 999999

\* C4 as claimed: Scenario B returns three singleton groups.
C4_ScenarioBSingletons ==
    ScenarioB =>
        /\ Returned
        /\ Assignment = <<[k |-> "Group 1", v |-> <<"a">>],
                          [k |-> "Group 2", v |-> <<"b">>],
                          [k |-> "Group 3", v |-> <<"c">>]>>

\* C4 amended: Scenario B returns Group 1 = [a, b] and Group 2 = [c], since
\* the correlation 1.0 of a and b is greater than 0.999999.
C4_ScenarioBGroupsAB ==
    ScenarioB =>
        /\ Returned
        /\ Assignment = <<[k |-> "Group 1", v |-> <<"a", "b">>],
                          [k |-> "Group 2", v |-> <<"c">>]>>

C4_Witness == ScenarioB /\ Returned /\ Len(Grouped) = 3

\* C5: for a rectangular dataset (every row with the same keys in the same
\* order) the grouped dataset has one row per original row, in order; each
\* grouped row's keys are the group labels; the value under a label is the
\* original row's value of the group's first member, which is the group's
\* lowest-index member.
C5_GroupedDataset ==
    (Returned /\ Rectangular) =>
        /\ Len(Grouped) = Len(data)
        /\ \A i \in 1..Len(Grouped) :
            /\ {Grouped[i][e].k : e \in 1..Len(Grouped[i])}
                   = {Assignment[g].k : g \in 1..Len(Assignment)}
            /\ Len(Grouped[i]) = Len(Assignment)
            /\ \A g \in 1..Len(Assignment) :
                /\ DictGet(Grouped[i], Assignment[g].k)
                       = DictGet(data[i], Assignment[g].v[1])
                /\ \A c \in Members(g) :
                       ColIndex(Assignment[g].v[1]) <= ColIndex(c)

C5_Witness ==
    /\ Returned /\ Matched /\ NCols = 3 /\ Len(data) = 2
    /\ Len(Assignment) = 2
    /\ Assignment[2].v = <<Columns[2], Columns[3]>>
    /\ DictGet(Grouped[2], "Group 2") = DictGet(data[2], Columns[2])

\* C6: the labels are "Group 1", ..., "Group k" in this order, k the number
\* of columns still unassigned when the scan reaches them, and the first
\* member of "Group n" is the n-th such column.
C6_Numbering ==
    (Returned /\ Matched) =>
        LET reps == Increasing(Representatives(NCols))
        IN  /\ DictKeys(Assignment)
                   = [n \in 1..Len(reps) |-> "Group " \o ToString(n)]
            /\ \A n \in 1..Len(reps) : Assignment[n].v[1] = Columns[reps[n]]

C6_Witness ==
    /\ Returned /\ Matched /\ NCols = 4
    /\ Representatives(NCols) = {1, 3}
    /\ Len(Assignment) = 2

\* every correlation between column j and another column is NaN
AllNaN(j) ==
    \A i \in 1..NCols : i # j => cors[i][j] = NaN /\ cors[j][i] = NaN

\* C7: a column whose correlations with all other columns are NaN is, for
\* every threshold, alone in its group and in no other group, and the
\* call raises no error.
C7_NaNNeverGrouped ==
    (Called /\ Matched /\ Len(data) > 0) =>
        \A j \in 1..NCols :
            AllNaN(j) =>
                /\ Returned
                /\ \E g \in 1..Len(Assignment) : Columns[j] \in Members(g)
                /\ \A g \in 1..Len(Assignment) :
                       Columns[j] \in Members(g)
                           => Assignment[g].v = <<Columns[j]>>

C7_Witness ==
    /\ Returned /\ Matched /\ NCols = 3
    /\ AllNaN(2)
    /\ Assignment = <<[k |-> "Group 1", v |-> <<Columns[1], Columns[3]>>],
                      [k |-> "Group 2", v |-> <<Columns[2]>>]>>

\* C8: a call with a matrix that is not n x n for the n columns of the
\* dataset ends in an error and returns nothing.
C8_MismatchIsError ==
    (Called /\ Len(data) > 0 /\ ~Matched) => ~Returned

\* the columns a representative r absorbs: those after it whose correlation
\* with r is strictly above the threshold, in column order
AbsorbedBy(r) ==
    LET js == Increasing({j \in (r + 1)..NCols :
                              Above(cors[r][j], cor_threshold)})
    IN  [m \in 1..Len(js) |-> Columns[js[m]]]

\* C10: the groups are started by exactly the columns in no member list
\* built so far, and the member list of the group started by column r is r
\* followed by every later column whose correlation with r is strictly
\* greater than the threshold, in column order.
C10_Membership ==
    (Returned /\ Matched) =>
        LET reps == Increasing(Representatives(NCols))
        IN  /\ Len(Assignment) = Len(reps)
            /\ \A n \in 1..Len(reps) :
                /\ Assignment[n].v
                       = <<Columns[reps[n]]>> \o AbsorbedBy(reps[n])
                /\ \A m1, m2 \in 1..Len(Assignment[n].v) :
                       m1 < m2 => ColIndex(Assignment[n].v[m1])
                                      < ColIndex(Assignment[n].v[m2])

\* a correlation equal to the threshold does not absorb, a greater one does
C10_Witness ==
    /\ Returned /\ Matched /\ NCols = 3
    /\ cors[1][2] = cor_threshold
    /\ Assignment = <<[k |-> "Group 1", v |-> <<Columns[1], Columns[3]>>],
                      [k |-> "Group 2", v |-> <<Columns[2]>>]>>

---------------------------------------------------------------------------
(* Properties of the dashboard, under SpecDash *)

\* C9: no update changes the stored dataset and matrix, and an update with
\* n_clicks >= 1 that returns shows the grouped dataset and the group table
\* of group_columns(original data, original matrix, current threshold),
\* whatever the earlier thresholds and the previous table were.
C9_Stateless ==
    [][/\ memory' = memory
       /\ memory = Store(data, cors)
       /\ (n_clicks' # n_clicks /\ ret'.outcome = "ok") =>
            LET r == group_columns(data, cors, cor_threshold)
                glwc == r.group_labels_with_columns
            IN  /\ r.outcome = "ok"
                /\ srcdoc' = create_parallel(r.data_grouped)
                /\ Len(group_table') = Len(glwc)
                /\ \A i \in 1..Len(glwc) :
                       /\ group_table'[i].Group = glwc[i].k
                       /\ group_table'[i].Columns = join(", ", glwc[i].v)
      ]_vars

\* a second update, after one that showed another table
C9_Witness ==
    /\ n_clicks = 2
    /\ ret.outcome = "ok"
    /\ cor_threshold = 500000
    /\ NCols = 3
    /\ group_table = <<[Group |-> "Group 1", Columns |-> "c1, c2"],
                       [Group |-> "Group 2", Columns |-> "c3"]>>

====
